---- MODULE Spec2Model ----
(***************************************************************************)
(* A model of drf_renderer_xlsx/renderers.py: the XLSXRenderer that turns  *)
(* a REST framework response payload into a one-sheet workbook.            *)
(*                                                                         *)
(* Python values are tagged records [t |-> <type>, v |-> <content>]; a     *)
(* mapping keeps its items as a sequence of [k, v] pairs in insertion      *)
(* order, a str is a TLA+ string, so that key joining, str() and the two   *)
(* JSON encoders are computed character for character.                     *)
(***************************************************************************)
EXTENDS Integers, Sequences, FiniteSets, TLC

VARIABLES
    pc,                  \* position of the running render call, "idle" between calls
    reused,              \* whether a render call on this renderer instance has ended
    data,                \* argument `data` of the running call
    view,                \* renderer_context["view"], once line 94 has read it
    results,             \* local `results`
    header,              \* local `header`
    column_header,       \* local `column_header`
    header_style,        \* local `header_style`
    column_header_style, \* local `column_header_style`
    i,                   \* number of records the body loop has consumed
    ws,                  \* instance field self.ws
    body,                \* instance field self.body
    body_style,          \* instance field self.body_style
    out,                 \* what the call returned or raised
    rec,                 \* input of a direct _flatten call
    flat                 \* its result

vars == <<pc, reused, data, view, results, header, column_header, header_style,
          column_header_style, i, ws, body, body_style, out, rec, flat>>

renderVars == <<pc, reused, data, view, results, header, column_header, header_style,
                column_header_style, i, ws, body, body_style, out>>

(***************************************************************************)
(* Python values                                                           *)
(***************************************************************************)
Val(t, v) == [t |-> t, v |-> v]

PyNone == Val("none", "")
Unbound == Val("unbound", "")
Missing == Val("missing", "")
PyInt(n) == Val("int", n)
PyS(s) == Val("str", s)
Date(y, m, d) == Val("date", <<y, m, d>>)
List(xs) == Val("list", xs)
Dict(ps) == Val("dict", ps)
ReturnDict(ps) == Val("ReturnDict", ps)
KV(k, v) == [k |-> k, v |-> v]

\* isinstance(v, (ReturnDict, dict)); ReturnDict subclasses OrderedDict
IsDict(v) == v.t \in {"dict", "ReturnDict"}
IsReturnDict(v) == v.t = "ReturnDict"
IsList(v) == v.t = "list"
IsStr(v) == v.t = "str"
IsMutableMapping(v) == IsDict(v)
\* isinstance(v, collections.abc.Iterable): str, list and mappings are, numbers,
\* None and dates are not
IsIterable(v) == v.t \in {"str", "list", "dict", "ReturnDict"}

Keys(d) == [n \in 1..Len(d.v) |-> d.v[n].k]
HasKey(d, k) == \E n \in 1..Len(d.v) : d.v[n].k = k
GetItem(d, k) == d.v[CHOOSE n \in 1..Len(d.v) : d.v[n].k = k].v
DictGet(d, k, default) == IF HasKey(d, k) THEN GetItem(d, k) ELSE default

\* bool(v)
Truthy(v) ==
    IF v.t \in {"none", "unbound", "missing"} THEN FALSE
    ELSE IF v.t = "int" THEN v.v # 0
    ELSE IF v.t = "str" THEN v.v # ""
    ELSE IF v.t \in {"list", "dict", "ReturnDict"} THEN Len(v.v) > 0
    ELSE TRUE

\* `key in container` for a str key: a mapping tests its keys, a list its elements
Contains(container, key) ==
    IF IsDict(container) THEN HasKey(container, key)
    ELSE \E n \in 1..Len(container.v) : container.v[n] = PyS(key)

RECURSIVE JoinStr(_, _)
JoinStr(strs, sep) ==
    IF Len(strs) = 0 THEN ""
    ELSE IF Len(strs) = 1 THEN strs[1]
    ELSE strs[1] \o sep \o JoinStr(Tail(strs), sep)

Pad2(n) == IF n < 10 THEN "0" \o ToString(n) ELSE ToString(n)
IsoFormat(d) == ToString(d.v[1]) \o "-" \o Pad2(d.v[2]) \o "-" \o Pad2(d.v[3])

\* repr(v) and str(v) of the builtin types
RECURSIVE PyRepr(_)
PyRepr(v) ==
    IF v.t = "int" THEN ToString(v.v)
    ELSE IF v.t = "str" THEN "'" \o v.v \o "'"
    ELSE IF v.t = "none" THEN "None"
    ELSE IF v.t = "date" THEN
        "datetime.date(" \o ToString(v.v[1]) \o ", " \o ToString(v.v[2]) \o ", "
            \o ToString(v.v[3]) \o ")"
    ELSE IF v.t = "list" THEN
        "[" \o JoinStr([n \in 1..Len(v.v) |-> PyRepr(v.v[n])], ", ") \o "]"
    ELSE
        "{" \o JoinStr([n \in 1..Len(v.v) |->
                          "'" \o v.v[n].k \o "': " \o PyRepr(v.v[n].v)], ", ") \o "}"

PyStr(v) ==
    IF v.t = "str" THEN v.v
    ELSE IF v.t = "date" THEN IsoFormat(v)
    ELSE PyRepr(v)

\* json.dumps(v, cls=cls): whether it returns, and what. The plain JSONEncoder
\* raises TypeError on a date, DjangoJSONEncoder writes its isoformat.
RECURSIVE JsonSerializable(_, _)
JsonSerializable(v, cls) ==
    IF v.t \in {"int", "str", "none"} THEN TRUE
    ELSE IF v.t = "date" THEN cls = "DjangoJSONEncoder"
    ELSE IF v.t = "list" THEN \A n \in 1..Len(v.v) : JsonSerializable(v.v[n], cls)
    ELSE \A n \in 1..Len(v.v) : JsonSerializable(v.v[n].v, cls)

RECURSIVE JsonText(_)
JsonText(v) ==
    IF v.t = "int" THEN ToString(v.v)
    ELSE IF v.t = "str" THEN "\"" \o v.v \o "\""
    ELSE IF v.t = "none" THEN "null"
    ELSE IF v.t = "date" THEN "\"" \o IsoFormat(v) \o "\""
    ELSE IF v.t = "list" THEN
        "[" \o JoinStr([n \in 1..Len(v.v) |-> JsonText(v.v[n])], ", ") \o "]"
    ELSE
        "{" \o JoinStr([n \in 1..Len(v.v) |->
                          "\"" \o v.v[n].k \o "\": " \o JsonText(v.v[n].v)], ", ") \o "}"

JsonDumps(v, cls) ==
    IF JsonSerializable(v, cls) THEN PyS(JsonText(v))
    ELSE Val("TypeError", "Object of type date is not JSON serializable")

\* dict(items): an item whose key was seen before replaces that key's value and
\* keeps the key's first position
RECURSIVE DictFromItems(_)
DictFromItems(items) ==
    IF Len(items) = 0 THEN <<>>
    ELSE LET init == DictFromItems(SubSeq(items, 1, Len(items) - 1))
             last == items[Len(items)]
         IN IF \E n \in 1..Len(init) : init[n].k = last.k
            THEN [n \in 1..Len(init) |->
                    IF init[n].k = last.k THEN last ELSE init[n]]
            ELSE Append(init, last)

(***************************************************************************)
(* XLSXRenderer._flatten                                                   *)
(***************************************************************************)
RECURSIVE _flatten(_, _), FlattenItems(_, _)

\* the list `items` built by the loop of lines 168-181 over the pairs `ps`
FlattenItems(ps, parent_key) ==
    IF Len(ps) = 0 THEN <<>>
    ELSE LET k == ps[1].k
             v == ps[1].v
             new_key == IF parent_key # "" THEN parent_key \o "." \o k ELSE k
             mine ==
                 IF IsMutableMapping(v) THEN _flatten(v, new_key).v
                 ELSE IF IsIterable(v) /\ ~IsStr(v) THEN
                     IF Len(v.v) > 0 /\ IsIterable(v.v[1])
                     THEN <<KV(new_key, JsonDumps(v, "DjangoJSONEncoder"))>>
                     ELSE <<KV(new_key,
                               PyS(JoinStr([n \in 1..Len(v.v) |-> PyStr(v.v[n])], ", ")))>>
                 ELSE <<KV(new_key, v)>>
         IN mine \o FlattenItems(Tail(ps), parent_key)

\* _flatten, were the recursion of line 171 to pass no parent key
_flatten_DropsParentKey(d, parent_key) == Dict(DictFromItems(FlattenItems(d.v, "")))

_flatten(d, parent_key) == Dict(DictFromItems(FlattenItems(d.v, parent_key)))

(***************************************************************************)
(* get_style_from_dict, get_attribute and the openpyxl objects             *)
(***************************************************************************)
\* an attribute of a NamedStyle that nothing has set
Unset == Val("default", "")

NamedStyle(name) ==
    Val("NamedStyle", [name |-> name, font |-> Unset, fill |-> Unset,
                       alignment |-> Unset, border |-> Unset])

\* the loop of lines 38-47 over the pairs of style_dict
RECURSIVE ApplyStyleItems(_, _)
ApplyStyleItems(style, ps) ==
    IF Len(ps) = 0 THEN style
    ELSE LET key == ps[1].k
             value == ps[1].v
             side == Val("Side", value.v)
             next ==
                 IF key = "font" THEN [style EXCEPT !.font = Val("Font", value.v)]
                 ELSE IF key = "fill" THEN
                     [style EXCEPT !.fill = Val("PatternFill", value.v)]
                 ELSE IF key = "alignment" THEN
                     [style EXCEPT !.alignment = Val("Alignment", value.v)]
                 ELSE IF key = "border_side" THEN
                     [style EXCEPT !.border =
                         Val("Border", <<KV("left", side), KV("right", side),
                                         KV("top", side), KV("bottom", side)>>)]
                 ELSE style
         IN ApplyStyleItems(next, Tail(ps))

get_style_from_dict(style_dict, style_name) ==
    IF ~Truthy(style_dict) THEN NamedStyle(style_name)
    ELSE Val("NamedStyle", ApplyStyleItems(NamedStyle(style_name).v, style_dict.v))

\* A view is a record of its attributes: field <name> is the attribute's value,
\* field get_<name> what the method of that name returns; Missing = not defined.
get_attribute(get_from, prop_name, default) ==
    LET attr == get_from[prop_name]
        prop0 == IF attr = Missing THEN PyNone ELSE attr
        prop_func == get_from["get_" \o prop_name]
        prop1 == IF ~Truthy(prop0) /\ prop_func # Missing THEN prop_func ELSE prop0
    IN IF prop1 = PyNone THEN default ELSE prop1

\* WriteOnlyCell(ws, value=value) followed by cell.style = style
Cell(value, style) == [value |-> value, style |-> style, fill |-> style.v.fill]

\* wb.create_sheet() of a write-only workbook
NewSheet ==
    Val("Worksheet", [title |-> "Sheet", images |-> <<>>, rows |-> <<>>, saved |-> FALSE])

\* ws.append(row)
SheetAppend(sheet, row) == [sheet EXCEPT !.v.rows = Append(@, row)]

\* save_virtual_workbook(wb): the bytes of the document, kept as what it holds
Document(sheet) ==
    Val("xlsx", [title |-> sheet.v.title, images |-> sheet.v.images, rows |-> sheet.v.rows])

(***************************************************************************)
(* XLSXRenderer                                                            *)
(***************************************************************************)
\* `detail_key in data` raises TypeError when data is None
_check_validatation_data(d) ==
    IF d = PyNone THEN Val("TypeError", "argument of type 'NoneType' is not iterable")
    ELSE IF Contains(d, "detail") THEN Val("bool", FALSE)
    ELSE Val("bool", TRUE)

_json_format_response(response_data) == JsonDumps(response_data, "JSONEncoder")

\* lines 132-144: the cells of the column-header row
RECURSIVE ColumnHeaderCells(_, _, _, _)
ColumnHeaderCells(names, column_count, column_titles, style) ==
    IF Len(names) = 0 THEN <<>>
    ELSE IF names[1] = "row_color"
    THEN ColumnHeaderCells(Tail(names), column_count, column_titles, style)
    ELSE LET count == column_count + 1
             column_name_display ==
                 IF count > Len(column_titles.v) THEN PyS(names[1])
                 ELSE column_titles.v[count]
         IN <<Cell(column_name_display, style)>>
                \o ColumnHeaderCells(Tail(names), count, column_titles, style)

\* lines 126-129
ColumnNamesFirstRow(res) == IF IsDict(res) THEN res ELSE _flatten(res.v[1], "")

\* the cells of one body row, were line 200 not to skip row_color
BodyCells_KeepsRowColor(ps, style, fill) ==
    [n \in 1..Len(ps) |->
        IF Truthy(fill) THEN [Cell(ps[n].v, style) EXCEPT !.fill = fill]
        ELSE Cell(ps[n].v, style)]

\* lines 198-207: the cells of one body row
RECURSIVE BodyCells(_, _, _)
BodyCells(ps, style, fill) ==
    IF Len(ps) = 0 THEN <<>>
    ELSE IF ps[1].k = "row_color" THEN BodyCells(Tail(ps), style, fill)
    ELSE LET cell == Cell(ps[1].v, style)
         IN <<IF Truthy(fill) THEN [cell EXCEPT !.fill = fill] ELSE cell>>
                \o BodyCells(Tail(ps), style, fill)

\* _make_body(row), as the sheet self.ws becomes
_make_body(sheet, style, row) ==
    LET flatten_row == _flatten(row, "")
        fill == IF Contains(row, "row_color")
                THEN Val("PatternFill", <<KV("fill_type", PyS("solid")),
                                          KV("start_color", GetItem(row, "row_color"))>>)
                ELSE PyNone
    IN SheetAppend(sheet, BodyCells(flatten_row.v, style, fill))

(***************************************************************************)
(* Inputs                                                                  *)
(***************************************************************************)
MaxRows == 2
MaxNodes == 3

\* The records of the payloads: one with the columns id and name, one that lacks
\* id, one with a further key, and row_color in last, middle and first position,
\* the last beside a nested mapping.
Plain == <<KV("id", PyInt(1)), KV("name", PyS("x"))>>
Short == <<KV("name", PyS("y")), KV("row_color", PyS("FF0000FF"))>>
Extra == <<KV("id", PyInt(2)), KV("name", PyS("y")), KV("note", PyS("n"))>>
ColorMid == <<KV("id", PyInt(4)), KV("row_color", PyS("FF00FF00")), KV("name", PyS("z"))>>
Nested ==
    <<KV("row_color", PyS("FFFF0000")), KV("id", PyInt(5)),
      KV("user", Dict(<<KV("name", PyS("x")), KV("tags", List(<<PyInt(1), PyInt(2)>>))>>))>>

RowRecords == {Plain, Short, Extra, ColorMid, Nested}
Collections ==
    UNION {{List([n \in 1..len |-> Dict(f[n])]) : f \in [1..len -> RowRecords]} :
           len \in 0..MaxRows}
Singles == {Dict(r) : r \in RowRecords} \cup {ReturnDict(r) : r \in RowRecords}
ResultSets == Collections \cup Singles

DetailPayloads ==
    { Dict(<<KV("detail", PyS("Not found."))>>),
      Dict(<<KV("detail", PyS("Not found.")), KV("results", List(<<Dict(Plain)>>))>>),
      ReturnDict(<<KV("id", PyInt(1)), KV("detail", PyS("text")),
                   KV("created", Date(2020, 1, 2))>>) }

Payloads ==
    {PyNone} \cup DetailPayloads \cup ResultSets
        \cup {Dict(<<KV("count", PyInt(Len(r.v))), KV("results", r)>>) : r \in ResultSets}

FontStyle == Dict(<<KV("font", Dict(<<KV("name", PyS("Arial"))>>))>>)
FullStyle ==
    Dict(<<KV("fill", Dict(<<KV("fill_type", PyS("solid")),
                             KV("start_color", PyS("FFCCFFCC"))>>)),
           KV("alignment", Dict(<<KV("horizontal", PyS("center"))>>)),
           KV("border_side", Dict(<<KV("border_style", PyS("thin"))>>)),
           KV("font", Dict(<<KV("name", PyS("Arial"))>>)),
           KV("protection", Dict(<<KV("locked", PyS("yes"))>>))>>)

\* <<attribute, what the get_ method returns>> of each configuration section
HeaderConfigs ==
    { <<Missing, Missing>>,
      <<Dict(<<KV("tab_title", PyS("Data"))>>), Missing>>,
      <<Dict(<<>>), Dict(<<KV("header_title", PyS("Sales")), KV("tab_title", PyS("Q1")),
                           KV("img", PyS("logo.png")), KV("style", FullStyle)>>)>> }
ColumnHeaderConfigs ==
    { <<Missing, Missing>>,
      <<Dict(<<KV("titles", List(<<PyS("A")>>))>>), Missing>>,
      <<Missing, Dict(<<KV("titles", List(<<PyS("A"), PyS("B"), PyS("C"), PyS("D")>>)),
                        KV("style", FontStyle)>>)>> }
BodyConfigs ==
    { <<PyNone, PyNone>>,
      <<Dict(<<KV("style", FullStyle)>>), Missing>> }

Views ==
    { [xlsx_header |-> h[1], get_xlsx_header |-> h[2],
       xlsx_column_header |-> c[1], get_xlsx_column_header |-> c[2],
       xlsx_body |-> b[1], get_xlsx_body |-> b[2]] :
      h \in HeaderConfigs, c \in ColumnHeaderConfigs, b \in BodyConfigs }

\* The item sequences of the mappings with n items in all, nested items counted,
\* whose keys are in K and whose values other than mappings are in L, given
\* table[m + 1] = those with m items for every m < n.
ItemSeqsOfSize(K, L, table, n) ==
    UNION {
      { <<KV(k, v)>> \o rest :
          v \in {Dict(ps) : ps \in table[s]} \cup (IF s = 1 THEN L ELSE {}),
          rest \in {r \in table[n - s + 1] : \A m \in 1..Len(r) : r[m].k # k} } :
      k \in K, s \in 1..n }

RECURSIVE ItemSeqTable(_, _, _, _)
ItemSeqTable(K, L, table, n) ==
    IF Len(table) > n THEN table
    ELSE ItemSeqTable(K, L, Append(table, ItemSeqsOfSize(K, L, table, Len(table))), n)

RecordsUpTo(K, L, n) ==
    LET table == ItemSeqTable(K, L, <<{<<>>}>>, n)
    IN {Dict(ps) : ps \in UNION {table[m] : m \in 1..(n + 1)}}

\* scalar fields under keys one of which holds the separator
PathKeys == {"a", "b", "a.b"}
PathLeaves == {PyInt(1), PyS("x")}

\* sequence fields of every kind _flatten tells apart
ListKeys == {"tags", "m"}
ListLeaves ==
    { PyInt(7),
      List(<<>>),
      List(<<PyInt(1), PyInt(2), PyInt(3)>>),
      List(<<PyS("x"), PyS("y")>>),
      List(<<PyInt(1), PyS("x")>>),
      List(<<Date(2020, 1, 2)>>),
      List(<<List(<<PyInt(1), PyInt(2)>>), List(<<PyInt(3), PyInt(4)>>)>>),
      List(<<Dict(<<KV("k", PyInt(1))>>)>>) }

FlattenInputs ==
    RecordsUpTo(PathKeys, PathLeaves, MaxNodes) \cup RecordsUpTo(ListKeys, ListLeaves, MaxNodes)

(***************************************************************************)
(* render, one step per row it appends                                     *)
(***************************************************************************)
Init ==
    /\ pc = "idle" /\ reused = FALSE
    /\ data = Unbound /\ view = Unbound /\ results = Unbound
    /\ header = Unbound /\ column_header = Unbound
    /\ header_style = Unbound /\ column_header_style = Unbound
    /\ i = 0 /\ ws = Unbound /\ body = Unbound /\ body_style = Unbound
    /\ out = Unbound /\ rec = Unbound /\ flat = Unbound

locals == <<results, header, column_header, header_style, column_header_style, i>>
fields == <<ws, body, body_style>>

\* render, were line 89 to create the sheet only when the renderer holds none
Render_ReusesSheet(d) ==
    /\ pc = "idle"
    /\ _check_validatation_data(d) = Val("bool", TRUE)
    /\ data' = d
    /\ pc' = "config"
    /\ ws' = IF ws = Unbound THEN NewSheet ELSE ws
    /\ results' = IF Contains(d, "results") THEN GetItem(d, "results") ELSE d
    /\ UNCHANGED <<out, reused, view, header, column_header, header_style,
                   column_header_style, i, body, body_style, rec, flat>>

\* lines 78-91 for payload d: the classification of the payload, the new workbook
\* and its sheet, and `results`
Render(d) ==
    LET valid == _check_validatation_data(d)
        text == _json_format_response(d)
    IN /\ pc = "idle"
       /\ data' = d
       /\ IF valid.t = "TypeError"
          THEN pc' = "raised" /\ out' = valid /\ UNCHANGED <<ws, results>>
          ELSE IF ~valid.v
          THEN /\ pc' = IF text.t = "TypeError" THEN "raised" ELSE "returned"
               /\ out' = text
               /\ UNCHANGED <<ws, results>>
          ELSE IF d = PyNone
          THEN pc' = "returned" /\ out' = Val("bytes", "") /\ UNCHANGED <<ws, results>>
          ELSE /\ pc' = "config"
               /\ ws' = NewSheet
               /\ results' = IF Contains(d, "results") THEN GetItem(d, "results") ELSE d
               /\ out' = out
       /\ UNCHANGED <<reused, view, header, column_header, header_style,
                      column_header_style, i, body, body_style, rec, flat>>

\* lines 93-112 with renderer_context["view"] = v: the configuration, the styles,
\* the image and the sheet's title
Configure(v) ==
    LET h == get_attribute(v, "xlsx_header", Dict(<<>>))
        ch == get_attribute(v, "xlsx_column_header", Dict(<<>>))
        b == get_attribute(v, "xlsx_body", Dict(<<>>))
        img_addr == DictGet(h, "img", PyNone)
        sheet1 == IF Truthy(img_addr)
                  THEN [ws EXCEPT !.v.images = Append(@, [img |-> img_addr, anchor |-> "A1"])]
                  ELSE ws
    IN /\ pc = "config"
       /\ view' = v
       /\ header' = h
       /\ column_header' = ch
       /\ body' = b
       /\ header_style' = get_style_from_dict(DictGet(h, "style", PyNone), "header_style")
       /\ column_header_style' =
              get_style_from_dict(DictGet(ch, "style", PyNone), "column_header_style")
       /\ body_style' = get_style_from_dict(DictGet(b, "style", PyNone), "body_style")
       /\ ws' = [sheet1 EXCEPT !.v.title = DictGet(h, "tab_title", PyS("Report")).v]
       /\ pc' = "header"
       /\ UNCHANGED <<reused, data, results, i, out, rec, flat>>

header_title == DictGet(header, "header_title", PyS("Report"))

\* the banner row, were line 115 not to test the header configuration
WriteHeader_Unconditional ==
    /\ pc = "header"
    /\ ws' = SheetAppend(ws, <<Cell(header_title, header_style)>>)
    /\ pc' = "columns"
    /\ UNCHANGED <<reused, data, view, locals, body, body_style, out, rec, flat>>

\* lines 114-118
WriteHeader ==
    /\ pc = "header"
    /\ ws' = IF Truthy(header)
             THEN SheetAppend(ws, <<Cell(header_title, header_style)>>)
             ELSE ws
    /\ pc' = "columns"
    /\ UNCHANGED <<reused, data, view, locals, body, body_style, out, rec, flat>>

column_titles == DictGet(column_header, "titles", List(<<>>))

\* lines 121-146
WriteColumnHeaders ==
    /\ pc = "columns"
    /\ ws' = IF Len(results.v) > 0
             THEN SheetAppend(ws, ColumnHeaderCells(Keys(ColumnNamesFirstRow(results)), 0,
                                                    column_titles, column_header_style))
             ELSE ws
    /\ pc' = "body"
    /\ UNCHANGED <<reused, data, view, locals, body, body_style, out, rec, flat>>

\* whether the branches of lines 150-154 have another record to write
MoreRows ==
    \/ IsReturnDict(results) /\ i = 0
    \/ IsList(results) /\ i < Len(results.v)

\* lines 150-154: one call of _make_body
WriteBodyRow ==
    /\ pc = "body"
    /\ MoreRows
    /\ ws' = _make_body(ws, body_style, IF IsReturnDict(results) THEN results
                                        ELSE results.v[i + 1])
    /\ i' = i + 1
    /\ UNCHANGED <<pc, reused, data, view, results, header, column_header, header_style,
                   column_header_style, body, body_style, out, rec, flat>>

\* line 156; the workbook holds the one sheet line 89 created, which is self.ws
Save ==
    /\ pc = "body"
    /\ ~MoreRows
    /\ out' = Document(ws)
    /\ ws' = [ws EXCEPT !.v.saved = TRUE]
    /\ pc' = "returned"
    /\ UNCHANGED <<reused, data, view, locals, body, body_style, rec, flat>>

\* the call is over: its frame is gone, the instance fields stay
Return ==
    /\ pc \in {"returned", "raised"}
    /\ pc' = "idle"
    /\ data' = Unbound /\ view' = Unbound /\ results' = Unbound
    /\ header' = Unbound /\ column_header' = Unbound
    /\ header_style' = Unbound /\ column_header_style' = Unbound
    /\ i' = 0 /\ out' = Unbound
    /\ reused' = TRUE
    /\ UNCHANGED <<fields, rec, flat>>

Next ==
    \/ \E d \in Payloads : Render(d)
    \/ \E v \in Views : Configure(v)
    \/ WriteHeader
    \/ WriteColumnHeaders
    \/ WriteBodyRow
    \/ Save
    \/ Return

Spec == Init /\ [][Next]_vars

(***************************************************************************)
(* _flatten called on its own, on every record of FlattenInputs            *)
(***************************************************************************)
InitFlatten ==
    /\ pc = "idle" /\ reused = FALSE
    /\ data = Unbound /\ view = Unbound /\ results = Unbound
    /\ header = Unbound /\ column_header = Unbound
    /\ header_style = Unbound /\ column_header_style = Unbound
    /\ i = 0 /\ ws = Unbound /\ body = Unbound /\ body_style = Unbound
    /\ out = Unbound
    /\ rec \in FlattenInputs
    /\ flat = Unbound

FlattenCall ==
    /\ flat = Unbound
    /\ flat' = _flatten(rec, "")
    /\ UNCHANGED <<rec, renderVars>>

SpecFlatten == InitFlatten /\ [][FlattenCall]_vars

(***************************************************************************)
(* Vocabulary of the properties                                            *)
(***************************************************************************)
\* the leaves of a record in depth-first order, each with the keys leading to it
RECURSIVE LeafPaths(_, _)
LeafPaths(ps, prefix) ==
    IF Len(ps) = 0 THEN <<>>
    ELSE (IF IsDict(ps[1].v)
          THEN LeafPaths(ps[1].v.v, Append(prefix, ps[1].k))
          ELSE <<[path |-> Append(prefix, ps[1].k), v |-> ps[1].v]>>)
         \o LeafPaths(Tail(ps), prefix)

Dotted(path) == JoinStr(path, ".")
Leaves(r) == LeafPaths(r.v, <<>>)
DottedKeys(r) == [n \in 1..Len(Leaves(r)) |-> Dotted(Leaves(r)[n].path)]
DistinctPaths(r) ==
    \A m, n \in 1..Len(Leaves(r)) : m # n => DottedKeys(r)[m] # DottedKeys(r)[n]

IsScalar(v) == v.t \in {"int", "str"}
SeqOfScalars(v) == IsList(v) /\ \A n \in 1..Len(v.v) : IsScalar(v.v[n])
CommaJoined(v) == PyS(JoinStr([n \in 1..Len(v.v) |-> PyStr(v.v[n])], ", "))

NonReserved(ps) == SelectSeq(ps, LAMBDA p : p.k # "row_color")
CellValues(row) == [n \in 1..Len(row) |-> row[n].value]

\* a call that built a workbook has returned it
Done == pc = "returned" /\ out.t = "xlsx"
ViewHeader == get_attribute(view, "xlsx_header", Dict(<<>>))
ViewTitles == DictGet(get_attribute(view, "xlsx_column_header", Dict(<<>>)), "titles", List(<<>>)).v
\* rows before the column-header row, and before the first body row
BannerRows == IF Truthy(ViewHeader) THEN 1 ELSE 0
HeadRows == BannerRows + (IF Len(results.v) > 0 THEN 1 ELSE 0)
\* the record the spec discovers the columns from, and the columns
FirstRecord == IF IsDict(results) THEN results ELSE results.v[1]
DiscoveredColumns == Keys(Dict(NonReserved(_flatten(FirstRecord, "").v)))
DisplayName(n) == IF n <= Len(ViewTitles) THEN ViewTitles[n] ELSE PyS(DiscoveredColumns[n])

(***************************************************************************)
(* C1: render(None) returns the empty byte sequence: it does not raise,    *)
(* builds no sheet and does not take the JSON fallback.                    *)
(***************************************************************************)
C1_NoneReturnsEmptyBytes ==
    [][(pc = "idle" /\ pc' # "idle" /\ data' = PyNone)
         => (pc' = "returned" /\ out' = Val("bytes", "") /\ ws' = ws)]_vars

(***************************************************************************)
(* C2: for every mapping payload with the key detail, render returns the   *)
(* JSON text of the payload, appends no row to any sheet, never raises and *)
(* does not read the view configuration.                                   *)
(***************************************************************************)
C2_DetailPayloadReturnsItsJson ==
    [][(pc = "idle" /\ pc' # "idle" /\ IsDict(data') /\ HasKey(data', "detail"))
         => /\ pc' = "returned"
            /\ out' = PyS(JsonText(data'))
            /\ ws' = ws
            /\ view' = Unbound /\ header' = Unbound /\ column_header' = Unbound
            /\ body' = body /\ body_style' = body_style]_vars

(***************************************************************************)
(* C3: when results is a single non-empty mapping, plain or ReturnDict,    *)
(* the sheet gets exactly one body row, and the column-header row has the  *)
(* flattened keys of the mapping: the same columns, in the same order, as  *)
(* the body row.                                                           *)
(***************************************************************************)
C3_SingleMappingOneRowUnderFlattenedKeys ==
    (Done /\ IsDict(results) /\ Len(results.v) > 0)
      => LET rows == out.v.rows
             flatp == NonReserved(_flatten(results, "").v)
         IN /\ Len(rows) = BannerRows + 2
            /\ Len(rows[BannerRows + 1]) = Len(flatp)
            /\ \A n \in 1..Len(flatp) : rows[BannerRows + 1][n].value = DisplayName(n)
            /\ CellValues(rows[BannerRows + 2]) = [n \in 1..Len(flatp) |-> flatp[n].v]

(***************************************************************************)
(* C4: for a collection the column set is fixed by the first record: every *)
(* body row has one cell per discovered non-reserved column, in discovery  *)
(* order; a key the first record lacks never produces a cell, and a key a  *)
(* later record lacks does not shift that record's other cells.            *)
(***************************************************************************)
C4_ColumnSetFixedByFirstRecord ==
    (Done /\ IsList(results) /\ Len(results.v) > 0)
      => LET rows == out.v.rows
         IN /\ Len(rows) = HeadRows + Len(results.v)
            /\ \A j \in 1..Len(results.v) :
                 LET row == rows[HeadRows + j]
                     fj == _flatten(results.v[j], "")
                 IN /\ Len(row) = Len(DiscoveredColumns)
                    /\ \A n \in 1..Len(DiscoveredColumns) :
                         HasKey(fj, DiscoveredColumns[n])
                           => row[n].value = GetItem(fj, DiscoveredColumns[n])

(***************************************************************************)
(* C5: wherever row_color stands in a record, it is no column-header cell  *)
(* and its value is no body cell; the other fields keep their order; and   *)
(* the cells of a row are filled with a row colour exactly when the row's  *)
(* own record carries one, and then with that colour.                      *)
(***************************************************************************)
RowFill(r) ==
    IF HasKey(r, "row_color")
    THEN Val("PatternFill", <<KV("fill_type", PyS("solid")),
                              KV("start_color", GetItem(r, "row_color"))>>)
    ELSE get_style_from_dict(
             DictGet(get_attribute(view, "xlsx_body", Dict(<<>>)), "style", PyNone),
             "body_style").v.fill

C5_RowColorNeverEmitted ==
    Done =>
      LET rows == out.v.rows
          nBody == Len(rows) - HeadRows
          record(j) == IF IsList(results) THEN results.v[j] ELSE results
      IN /\ IsList(results) => nBody = Len(results.v)
         /\ Len(results.v) > 0 =>
              /\ \A n \in 1..Len(rows[HeadRows]) :
                   rows[HeadRows][n].value # PyS("row_color")
              /\ Len(rows[HeadRows])
                   = Len(NonReserved(ColumnNamesFirstRow(results).v))
              /\ IsList(results) =>
                   \A n \in 1..Len(DiscoveredColumns) :
                     rows[HeadRows][n].value = DisplayName(n)
         /\ \A j \in 1..nBody :
              LET row == rows[HeadRows + j]
                  others == NonReserved(_flatten(record(j), "").v)
              IN /\ CellValues(row) = [n \in 1..Len(others) |-> others[n].v]
                 /\ \A n \in 1..Len(row) :
                      /\ row[n].fill = RowFill(record(j))
                      /\ HasKey(record(j), "row_color")
                           => row[n].value # GetItem(record(j), "row_color")

C5_Witness ==
    /\ Done
    /\ results = List(<<Dict(ColorMid), Dict(Plain)>>)
    /\ Len(out.v.rows) = BannerRows + 3

(***************************************************************************)
(* C6: the i-th displayed column shows titles[i] when the title list has   *)
(* at least i entries and the discovered flattened key otherwise, and the  *)
(* header row has as many cells as there are discovered non-reserved       *)
(* columns.                                                                *)
(***************************************************************************)
C6_TitlesOverridePositionally ==
    (Done /\ Len(results.v) > 0)
      => LET hdr == out.v.rows[HeadRows]
         IN /\ Len(hdr) = Len(DiscoveredColumns)
            /\ \A n \in 1..Len(hdr) : hdr[n].value = DisplayName(n)

(***************************************************************************)
(* C7: _flatten stores each leaf reached through the keys k1, ..., kn      *)
(* under the key k1.k2. ... .kn, in depth-first order, leaves the input as *)
(* it was, and maps no key to a mapping.                                   *)
(***************************************************************************)
FlatIsLeavesByPath(r, f) ==
    /\ Keys(f) = DottedKeys(r)
    /\ \A n \in 1..Len(Leaves(r)) :
         IF IsList(Leaves(r)[n].v) THEN IsStr(f.v[n].v) ELSE f.v[n].v = Leaves(r)[n].v

C7_EveryLeafUnderItsDottedPath ==
    [][FlattenCall =>
         /\ rec' = rec
         /\ FlatIsLeavesByPath(rec, flat')
         /\ \A n \in 1..Len(flat'.v) : ~IsDict(flat'.v[n].v)]_vars

\* the first and the last leaf of a record under one dotted path
FirstAt(r, n) == \A m \in 1..(n - 1) : DottedKeys(r)[m] # DottedKeys(r)[n]
LastAt(r, n) == \A m \in (n + 1)..Len(Leaves(r)) : DottedKeys(r)[m] # DottedKeys(r)[n]

\* C7, for records whose leaves may share a dotted path: _flatten gives one
\* entry per distinct dotted path and none that is a mapping; where no two
\* leaves share a path every leaf is stored under its own path, and where leaves
\* share one the entry stands at the place of the first of them and holds the
\* value of the last.
C7_EveryLeafUnderItsDistinctDottedPath ==
    [][FlattenCall =>
         /\ rec' = rec
         /\ DistinctPaths(rec) => FlatIsLeavesByPath(rec, flat')
         /\ \A n \in 1..Len(flat'.v) : ~IsDict(flat'.v[n].v)
         /\ LET firsts == {n \in 1..Len(Leaves(rec)) : FirstAt(rec, n)}
            IN /\ Len(flat'.v) = Cardinality(firsts)
               /\ \A n \in 1..Len(Leaves(rec)) :
                    LastAt(rec, n) /\ ~IsList(Leaves(rec)[n].v)
                      => /\ HasKey(flat', DottedKeys(rec)[n])
                         /\ GetItem(flat', DottedKeys(rec)[n]) = Leaves(rec)[n].v
               /\ \A m, n \in 1..Len(flat'.v) :
                    m < n =>
                      \E a, b \in firsts :
                        /\ a < b
                        /\ DottedKeys(rec)[a] = flat'.v[m].k
                        /\ DottedKeys(rec)[b] = flat'.v[n].k]_vars

C7_Witness ==
    /\ flat # Unbound
    /\ rec = Dict(<<KV("b", PyS("x")), KV("a", Dict(<<KV("b", PyInt(1))>>))>>)
    /\ flat = Dict(<<KV("b", PyS("x")), KV("a.b", PyInt(1))>>)

(***************************************************************************)
(* C8: _flatten stores a sequence of scalars as the comma-space join of    *)
(* str(element), the empty sequence as the empty string, and the JSON text *)
(* of a sequence only when it is non-empty and its first element is an     *)
(* array.                                                                  *)
(***************************************************************************)
C8_SequencesOfScalarsAreJoined ==
    (flat # Unbound /\ DistinctPaths(rec))
      => \A n \in 1..Len(Leaves(rec)) :
           LET v == Leaves(rec)[n].v
               stored == GetItem(flat, DottedKeys(rec)[n])
           IN /\ SeqOfScalars(v) => stored = CommaJoined(v)
              /\ (IsList(v) /\ stored = PyS(JsonText(v)))
                   => (Len(v.v) > 0 /\ IsList(v.v[1]))

(***************************************************************************)
(* C9: for a collection payload the rows appended during one call are, in  *)
(* this order and nothing else: a banner row of one cell holding           *)
(* header_title (default "Report") iff the header configuration is         *)
(* non-empty, a column-header row iff results is non-empty, one body row   *)
(* per record in input order. Rows are only appended, and the document is  *)
(* serialized only after the last body row.                                *)
(***************************************************************************)
\* whether the m-th row of the sheet is the row the order of writing puts there
RowInPlace(rows, m) ==
    IF m <= BannerRows
    THEN /\ Len(rows[m]) = 1
         /\ rows[m][1].value = DictGet(ViewHeader, "header_title", PyS("Report"))
         /\ rows[m][1].style.v.name = "header_style"
    ELSE IF m <= HeadRows
    THEN \A n \in 1..Len(rows[m]) : rows[m][n].style.v.name = "column_header_style"
    ELSE LET others == NonReserved(_flatten(results.v[m - HeadRows], "").v)
         IN /\ CellValues(rows[m]) = [n \in 1..Len(others) |-> others[n].v]
            /\ \A n \in 1..Len(rows[m]) : rows[m][n].style.v.name = "body_style"

\* the number of rows the sheet holds when the call is at pc
RowsAt ==
    IF pc = "header" THEN 0
    ELSE IF pc = "columns" THEN BannerRows
    ELSE IF pc = "body" THEN HeadRows + i
    ELSE HeadRows + Len(results.v)

RowsInOrder ==
    /\ (IsList(results) /\ pc = "config") => (ws.v.rows = <<>> /\ out = Unbound)
    /\ (IsList(results) /\ pc \in {"header", "columns", "body", "returned"})
         => /\ Len(ws.v.rows) = RowsAt
            /\ \A m \in 1..RowsAt : RowInPlace(ws.v.rows, m)
            /\ IF pc = "returned"
               THEN out.t = "xlsx" /\ out.v.rows = ws.v.rows
               ELSE out = Unbound

AppendOnly ==
    (pc # "idle" /\ pc' # "idle")
      => LET old == ws.v.rows
             new == ws'.v.rows
         IN \/ new = old
            \/ Len(new) = Len(old) + 1 /\ SubSeq(new, 1, Len(old)) = old

C9_RowsAppendedInOrder == [][AppendOnly]_vars /\ []RowsInOrder

C9_Witness ==
    /\ Done
    /\ IsList(results) /\ Len(results.v) = 2
    /\ BannerRows = 1
    /\ Len(out.v.rows) = 4

(***************************************************************************)
(* C10: whatever calls the renderer instance has served, the sheet, the    *)
(* body configuration and the body style it holds are re-created before a  *)
(* call appends its first row, and the rows, values and styles of the call *)
(* are those its own payload and view configuration determine.             *)
(***************************************************************************)
\* the rows of a render call, from its payload and its view alone
ExpectedRows(d, v) ==
    LET h == get_attribute(v, "xlsx_header", Dict(<<>>))
        ch == get_attribute(v, "xlsx_column_header", Dict(<<>>))
        b == get_attribute(v, "xlsx_body", Dict(<<>>))
        res == IF Contains(d, "results") THEN GetItem(d, "results") ELSE d
        style(section, name) == get_style_from_dict(DictGet(section, "style", PyNone), name)
        cells(row) ==
            BodyCells(_flatten(row, "").v, style(b, "body_style"),
                      IF Contains(row, "row_color")
                      THEN Val("PatternFill", <<KV("fill_type", PyS("solid")),
                                                KV("start_color", GetItem(row, "row_color"))>>)
                      ELSE PyNone)
    IN (IF Truthy(h)
        THEN <<<<Cell(DictGet(h, "header_title", PyS("Report")), style(h, "header_style"))>>>>
        ELSE <<>>)
       \o (IF Len(res.v) > 0
           THEN <<ColumnHeaderCells(Keys(ColumnNamesFirstRow(res)), 0,
                                    DictGet(ch, "titles", List(<<>>)),
                                    style(ch, "column_header_style"))>>
           ELSE <<>>)
       \o (IF IsReturnDict(res) THEN <<cells(res)>>
           ELSE IF IsList(res) THEN [j \in 1..Len(res.v) |-> cells(res.v[j])]
           ELSE <<>>)

C10_CallsAreSelfContained ==
    /\ pc = "config" => ws = NewSheet
    /\ (pc \in {"header", "columns", "body"} \/ Done)
         => LET expected == ExpectedRows(data, view)
                b == get_attribute(view, "xlsx_body", Dict(<<>>))
            IN /\ body = b
               /\ body_style = get_style_from_dict(DictGet(b, "style", PyNone), "body_style")
               /\ ws.v.saved = (pc = "returned")
               /\ ws.v.title = DictGet(ViewHeader, "tab_title", PyS("Report")).v
               /\ ws.v.rows = SubSeq(expected, 1, IF Done THEN Len(expected) ELSE RowsAt)
               /\ Done => out = Document(ws)

C10_Witness ==
    /\ reused
    /\ Done
    /\ IsList(results) /\ Len(results.v) = 2
    /\ out.v.rows = ExpectedRows(data, view)
====
